---------------------------- MODULE Spec2Model ----------------------------
(***************************************************************************)
(* Field mapping engine of storyblok-graphql-codegen-terraform             *)
(* (src/src/lib/mapper.ts): toSchema, the grouping resolver                *)
(* (getUniqueDirectiveProps, toFieldGroupComponentField) and the field     *)
(* classifiers toComponentField / toArrayComponentField.                   *)
(*                                                                         *)
(* The engine is a pure function of one type definition, the type graph    *)
(* and the optional integration configuration.  Init draws the input,      *)
(* one action applies the function.  Strings are TLA+ strings; the case    *)
(* conversions of change-case are computed character by character.         *)
(***************************************************************************)
EXTENDS Integers, Sequences, FiniteSets, TLC

\* Largest number of declared fields of the type definition given to toSchema.
MaxFields == 3

(***************************************************************************)
(* Optional values: <<>> is undefined, <<v>> is the value v.               *)
(***************************************************************************)
None == <<>>

Some(v) == <<v>>

isValue(x) == x # None

\* ifValue(x, f) with f = Number: the value is kept, undefined stays undefined.
ifValue(x) == x

(***************************************************************************)
(* change-case: split into words, transform each word, join.               *)
(***************************************************************************)
Lowers == "abcdefghijklmnopqrstuvwxyz"

Uppers == "ABCDEFGHIJKLMNOPQRSTUVWXYZ"

CharAt(s, i) == SubSeq(s, i, i)

Letters == 1..Len(Lowers)

LowerSet == {CharAt(Lowers, i) : i \in Letters}

UpperSet == {CharAt(Uppers, i) : i \in Letters}

ToLower == [c \in UpperSet |-> CharAt(Lowers, CHOOSE i \in Letters : CharAt(Uppers, i) = c)]

ToUpper == [c \in LowerSet |-> CharAt(Uppers, CHOOSE i \in Letters : CharAt(Lowers, i) = c)]

IsUpper(c) == c \in UpperSet

IsLower(c) == c \in LowerSet

IsAlnum(c) == IsUpper(c) \/ IsLower(c)

LowerChar(c) == IF IsUpper(c) THEN ToLower[c] ELSE c

UpperChar(c) == IF IsLower(c) THEN ToUpper[c] ELSE c

RECURSIVE lowerCase(_)
lowerCase(s) == IF s = "" THEN "" ELSE LowerChar(Head(s)) \o lowerCase(Tail(s))

upperCaseFirst(s) == IF s = "" THEN "" ELSE UpperChar(Head(s)) \o Tail(s)

\* A word boundary inside a run of letters: aB, or the B of ABc.
IsSplit(s, i) ==
    \/ IsLower(CharAt(s, i - 1)) /\ IsUpper(CharAt(s, i))
    \/ /\ IsUpper(CharAt(s, i - 1)) /\ IsUpper(CharAt(s, i))
       /\ i < Len(s) /\ IsLower(CharAt(s, i + 1))

Flush(acc, cur) == IF cur = "" THEN acc ELSE Append(acc, cur)

RECURSIVE SplitWords(_, _, _, _)
SplitWords(s, i, cur, acc) ==
    IF i > Len(s) THEN Flush(acc, cur)
    ELSE LET c == CharAt(s, i) IN
         IF ~IsAlnum(c) THEN SplitWords(s, i + 1, "", Flush(acc, cur))
         ELSE IF cur # "" /\ IsSplit(s, i)
              THEN SplitWords(s, i + 1, c, Append(acc, cur))
              ELSE SplitWords(s, i + 1, cur \o c, acc)

words(s) == SplitWords(s, 1, "", <<>>)

RECURSIVE JoinWords(_, _)
JoinWords(ws, delimiter) ==
    IF ws = <<>> THEN ""
    ELSE IF Len(ws) = 1 THEN ws[1]
    ELSE ws[1] \o delimiter \o JoinWords(Tail(ws), delimiter)

camelCase(s) ==
    LET ws == words(s) IN
    JoinWords([i \in 1..Len(ws) |->
                  IF i = 1 THEN lowerCase(ws[i])
                  ELSE upperCaseFirst(lowerCase(ws[i]))], "")

snakeCase(s) ==
    LET ws == words(s) IN JoinWords([i \in 1..Len(ws) |-> lowerCase(ws[i])], "_")

paramCase(s) ==
    LET ws == words(s) IN JoinWords([i \in 1..Len(ws) |-> lowerCase(ws[i])], "-")

sentenceCase(s) ==
    LET ws == words(s) IN
    JoinWords([i \in 1..Len(ws) |->
                  IF i = 1 THEN upperCaseFirst(lowerCase(ws[i]))
                  ELSE lowerCase(ws[i])], " ")

(***************************************************************************)
(* Small sequence utilities (./value: uniqueBy keeps the first occurrence). *)
(***************************************************************************)
SeqMap(Op(_), s) == [i \in 1..Len(s) |-> Op(s[i])]

OptMap(Op(_), x) == IF x = None THEN None ELSE Some(Op(x[1]))

Indices(s) == [i \in 1..Len(s) |-> i]

uniqueBy(s) ==
    LET keep == SelectSeq(Indices(s), LAMBDA i : \A j \in 1..(i - 1) : s[j] # s[i])
    IN  [k \in 1..Len(keep) |-> s[keep[k]]]

Includes(s, x) == \E i \in 1..Len(s) : s[i] = x

(***************************************************************************)
(* GraphQL AST: type references, directives, field definitions.            *)
(***************************************************************************)
Named(n) == [kind |-> "NamedType", name |-> n]

ListOf(t) == [kind |-> "ListType", type |-> t]

NonNull(t) == [kind |-> "NonNullType", type |-> t]

RECURSIVE typeName(_)
typeName(type) == IF type.kind = "NamedType" THEN type.name ELSE typeName(type.type)

\* switchArray looks through a NonNull wrapper for a list.
Unwrapped(type) == IF type.kind = "NonNullType" THEN type.type ELSE type

IsArray(type) == Unwrapped(type).kind = "ListType"

ArgKeys ==
    {"section", "tab", "datasource", "ctType", "format", "blokTypes", "toolbar",
     "linkFeatures", "filetypes", "folder", "min", "max", "rtl", "regex",
     "decimals", "steps", "translatable", "default", "excludeFromExport",
     "displayName"}

NoArgs == [k \in ArgKeys |-> None]

StoryblokField(args) == [name |-> "storyblokField", args |-> args]

hasDirective(holder, name) ==
    \E i \in 1..Len(holder.directives) : holder.directives[i].name = name

\* The first directive of that name wins; later ones are ignored.
FindDirectiveValue(holder, name, prop) ==
    IF ~hasDirective(holder, name) THEN None
    ELSE LET i == CHOOSE i \in 1..Len(holder.directives) :
                    /\ holder.directives[i].name = name
                    /\ \A j \in 1..(i - 1) : holder.directives[j].name # name
         IN  IF prop \in DOMAIN holder.directives[i].args
             THEN holder.directives[i].args[prop] ELSE None

\* findStoryblokFieldValue(field, prop)?.value
findStoryblokFieldValue(field, prop) == FindDirectiveValue(field, "storyblokField", prop)

\* findStoryblokValue(node, prop)?.value
findStoryblokValue(node, prop) == FindDirectiveValue(node, "storyblok", prop)

StringValue(v) == [kind |-> "StringValue", value |-> v]

EnumValue(v) == [kind |-> "EnumValue", value |-> v]

(***************************************************************************)
(* The type graph (GraphQLSchema): every type a field may name.            *)
(***************************************************************************)
ObjectType(name, type) ==
    [kind |-> "object", name |-> name,
     directives |-> IF type = None THEN <<>>
                    ELSE <<[name |-> "storyblok", args |-> [type |-> type]]>>]

UnionType(name, members) == [kind |-> "union", name |-> name, types |-> members]

EnumType(name, values) == [kind |-> "enum", name |-> name, values |-> values]

ScalarType(name) == [kind |-> "scalar", name |-> name]

ScalarNames ==
    {"String", "Boolean", "Int", "Float", "ID", "Date", "DateTime", "CtTypeId",
     "StoryblokAsset", "StoryblokLink", "StoryblokSeo", "StoryblokTable"}

GraphTypes ==
    {ScalarType(n) : n \in ScalarNames} \cup
    {ObjectType("Page", Some("contentType")),
     ObjectType("BlogPost", Some("contentType")),
     ObjectType("Landing", Some("universal")),
     ObjectType("Teaser", None),
     UnionType("PageOrBlogPost", <<"Page", "BlogPost">>),
     UnionType("PageOrLanding", <<"Page", "Landing">>),
     UnionType("PageOrTeaser", <<"Page", "Teaser">>),
     EnumType("Color", <<[name |-> "Red", description |-> None],
                         [name |-> "darkBlue", description |-> Some("Navy")]>>)}

TypeNames == {t.name : t \in GraphTypes}

\* schema.getType(name), for a name the graph defines
getType(name) == CHOOSE t \in GraphTypes : t.name = name

hasType(name) == name \in TypeNames

isEnumType(n) == n.kind = "enum"

isObjectType(n) == n.kind = "object"

isUnionType(n) == n.kind = "union"

(***************************************************************************)
(* Results: a classifier returns a field spec or throws an Error.          *)
(***************************************************************************)
Return(value) == [threw |-> FALSE, value |-> value]

Throw(message) == [threw |-> TRUE, message |-> message]

(***************************************************************************)
(* External integration options (ctConnectionOptions, ctCategoryOptions).  *)
(***************************************************************************)
startsWith(value, prefix) ==
    Len(value) >= Len(prefix) /\ SubSeq(value, 1, Len(prefix)) = prefix

\* arg(value) is an unquoted reference, anything else a quoted literal.
maybeArg(value) ==
    [reference |-> startsWith(value, "var.") \/ startsWith(value, "local."),
     value |-> value]

Option(name, value) == [name |-> name, value |-> value]

ctConnectionOptions(config) ==
    <<Option("endpoint", maybeArg(config.endpoint)),
      Option("clientId", maybeArg(config.clientId)),
      Option("clientSecret", maybeArg(config.clientSecret)),
      Option("locale", maybeArg(config.locale))>>

ctCategoryOptions(config) ==
    <<Option("projectKey", maybeArg(config.projectKey)),
      Option("clientId", maybeArg(config.clientId)),
      Option("clientSecret", maybeArg(config.clientSecret))>>

(***************************************************************************)
(* Pieces shared by the two classifiers.                                   *)
(***************************************************************************)
\* values.map(v => v.kind === kind ? v.value : undefined).filter(isValue)
ValuesOfKind(values, kind) ==
    SeqMap(LAMBDA v : v.value, SelectSeq(values, LAMBDA v : v.kind = kind))

filetypes(field) ==
    LET list == findStoryblokFieldValue(field, "filetypes") IN
    IF list = None THEN <<>> ELSE ValuesOfKind(list[1], "EnumValue")

\* One option per enum member: its description, else its name in sentence case.
enumOptions(node) ==
    SeqMap(LAMBDA value :
               Option(IF value.description # None THEN value.description[1]
                      ELSE sentenceCase(value.name),
                      value.name),
           node.values)

\* The object types a field refers to: the type itself or the union's members.
referencedTypes(node) ==
    IF isUnionType(node)
    THEN SelectSeq(SeqMap(getType, node.types), isObjectType)
    ELSE <<node>>

storyblokType(node) ==
    LET type == findStoryblokValue(node, "type") IN
    IF type = None THEN "" ELSE type[1]

whitelist(types) == SeqMap(LAMBDA t : snakeCase(t.name), types)

(***************************************************************************)
(* toArrayComponentField: the classifier of list fields.                   *)
(***************************************************************************)
arrayReferenceField(field, node) ==
    LET types == referencedTypes(node)
        isContentReference ==
            \A i \in 1..Len(types) :
                storyblokType(types[i]) \in {"contentType", "universal"}
    IN  IF isContentReference
        THEN Return([type |-> "options",
                     source |-> "internal_stories",
                     filter_content_type |-> whitelist(types),
                     use_uuid |-> TRUE,
                     folder_slug |-> findStoryblokFieldValue(field, "folder")])
        ELSE Return([type |-> "bloks",
                     component_whitelist |-> whitelist(types),
                     restrict_components |-> TRUE,
                     minimum |-> ifValue(findStoryblokFieldValue(field, "min")),
                     maximum |-> ifValue(findStoryblokFieldValue(field, "max"))])

arrayEnumField(field, node) ==
    Return([type |-> "options",
            options |-> enumOptions(node),
            minimum |-> ifValue(findStoryblokFieldValue(field, "min")),
            maximum |-> ifValue(findStoryblokFieldValue(field, "max"))])

\* Mutant: a list of String has no case of its own.
arrayStringField_Unsupported(field, type) ==
    Throw("Unsupported array type " \o typeName(type))

arrayStringField(field, type) ==
    LET datasource == findStoryblokFieldValue(field, "datasource") IN
    IF datasource = None \/ datasource = Some("")
    THEN Throw("Datasource is required for type " \o typeName(type))
    ELSE Return([type |-> "options",
                 datasource_slug |-> datasource[1],
                 source |-> "internal",
                 use_uuid |-> TRUE])

arrayCtTypeIdField(field, type, config) ==
    IF config = None
    THEN Throw("Commercetools config is required for type " \o typeName(type))
    ELSE LET max == findStoryblokFieldValue(field, "max")
             ctType == findStoryblokFieldValue(field, "ctType")
         IN  Return([type |-> "custom",
                     field_type |-> "sb-commercetools",
                     options |->
                         ctConnectionOptions(config[1])
                         \o (IF max # None THEN <<Option("limit", max[1])>> ELSE <<>>)
                         \o (IF ctType # None /\ ctType # Some("")
                             THEN <<Option("selectOnly", ctType[1])>> ELSE <<>>)])

toArrayComponentField(field, type, config) ==
    LET name == typeName(type)
        node == getType(name)
    IN  IF hasType(name) /\ node.name = "StoryblokAsset"
        THEN Return([type |-> "multiasset", filetypes |-> filetypes(field)])
        ELSE IF hasType(name) /\ (isObjectType(node) \/ isUnionType(node))
        THEN arrayReferenceField(field, node)
        ELSE IF hasType(name) /\ isEnumType(node)
        THEN arrayEnumField(field, node)
        ELSE IF name = "String" THEN arrayStringField(field, type)
        ELSE IF name = "CtTypeId" THEN arrayCtTypeIdField(field, type, config)
        ELSE Throw("Unsupported array type " \o name)

(***************************************************************************)
(* toComponentField: the classifier of singular fields.                    *)
(***************************************************************************)
\* Boolean(x) || undefined
TrueOrUndefined(b) == IF b THEN Some(TRUE) ELSE None

IsNonEmpty(x) == x # None /\ x # Some("")

multilinkField(field) ==
    LET folder == findStoryblokFieldValue(field, "folder")
        linkFeatures ==
            OptMap(LAMBDA l : ValuesOfKind(l, "EnumValue"),
                   findStoryblokFieldValue(field, "linkFeatures"))
        components ==
            OptMap(LAMBDA l : SeqMap(snakeCase, ValuesOfKind(l, "StringValue")),
                   findStoryblokFieldValue(field, "blokTypes"))
        has(feature) == linkFeatures # None /\ Includes(linkFeatures[1], feature)
    IN  Return([type |-> "multilink",
                link_scope |-> folder,
                force_link_scope |-> TrueOrUndefined(IsNonEmpty(folder)),
                restrict_content_types |->
                    TrueOrUndefined(components # None /\ Len(components[1]) > 0),
                component_whitelist |-> components,
                asset_link_type |-> TrueOrUndefined(has("assets")),
                allow_target_blank |-> TrueOrUndefined(has("newTab")),
                email_link_type |-> TrueOrUndefined(has("email")),
                show_anchor |-> TrueOrUndefined(has("anchor"))])

referenceField(field, node) ==
    LET types == referencedTypes(node)
        isContentReference ==
            \A i \in 1..Len(types) : storyblokType(types[i]) = "contentType"
    IN  IF isContentReference
        THEN Return([type |-> "option",
                     source |-> "internal_stories",
                     filter_content_type |-> whitelist(types),
                     folder_slug |-> findStoryblokFieldValue(field, "folder"),
                     use_uuid |-> TRUE])
        ELSE Return([type |-> "bloks",
                     component_whitelist |-> whitelist(types),
                     restrict_components |-> TRUE,
                     minimum |-> IF field.type.kind = "NonNullType" THEN 1 ELSE 0,
                     maximum |-> 1])

richtextField(field) ==
    LET components ==
            OptMap(LAMBDA l :
                       uniqueBy(SeqMap(snakeCase, ValuesOfKind(l, "StringValue"))),
                   findStoryblokFieldValue(field, "blokTypes"))
        blok == IF components # None /\ Len(components[1]) > 0
                THEN <<"blok">> ELSE <<>>
        toolbar ==
            OptMap(LAMBDA l :
                       uniqueBy(SeqMap(paramCase, ValuesOfKind(l, "EnumValue"))
                                \o blok),
                   findStoryblokFieldValue(field, "toolbar"))
        linkFeatures == findStoryblokFieldValue(field, "linkFeatures")
    IN  Return([type |-> "richtext",
                rtl |-> findStoryblokFieldValue(field, "rtl"),
                max_length |-> ifValue(findStoryblokFieldValue(field, "max")),
                customize_toolbar |-> TrueOrUndefined(toolbar # None),
                toolbar |-> toolbar,
                allow_target_blank |->
                    TrueOrUndefined(
                        /\ linkFeatures # None
                        /\ Includes(linkFeatures[1], EnumValue("newTab"))),
                restrict_components |-> TrueOrUndefined(components # None),
                component_whitelist |-> components])

markdownField(field) ==
    LET toolbar ==
            OptMap(LAMBDA l : SeqMap(paramCase, ValuesOfKind(l, "EnumValue")),
                   findStoryblokFieldValue(field, "toolbar"))
    IN  Return([type |-> "markdown",
                rtl |-> findStoryblokFieldValue(field, "rtl"),
                max_length |-> ifValue(findStoryblokFieldValue(field, "max")),
                rich_markdown |-> TRUE,
                customize_toolbar |-> TrueOrUndefined(toolbar # None),
                toolbar |-> toolbar])

textareaField(field) ==
    Return([type |-> "textarea",
            rtl |-> findStoryblokFieldValue(field, "rtl"),
            max_length |-> ifValue(findStoryblokFieldValue(field, "max"))])

textField(field) ==
    Return([type |-> "text",
            rtl |-> findStoryblokFieldValue(field, "rtl"),
            max_length |-> ifValue(findStoryblokFieldValue(field, "max")),
            regex |-> findStoryblokFieldValue(field, "regex")])

\* Mutant: the format is looked at before the datasource and the ctType.
stringField_FormatFirst(field, config) ==
    LET datasource == findStoryblokFieldValue(field, "datasource")
        ctType == findStoryblokFieldValue(field, "ctType")
        stringType == findStoryblokFieldValue(field, "format")
    IN  IF stringType = Some("richtext") THEN richtextField(field)
        ELSE IF stringType = Some("markdown") THEN markdownField(field)
        ELSE IF stringType = Some("textarea") THEN textareaField(field)
        ELSE IF IsNonEmpty(datasource)
        THEN Return([type |-> "option",
                     datasource_slug |-> datasource[1],
                     source |-> "internal",
                     use_uuid |-> TRUE])
        ELSE IF ctType = Some("category")
        THEN IF config = None
             THEN Throw("Commercetools config is required for " \o field.name)
             ELSE Return([type |-> "custom",
                          field_type |-> "ct-category",
                          options |-> ctCategoryOptions(config[1])])
        ELSE textField(field)

stringField(field, config) ==
    LET datasource == findStoryblokFieldValue(field, "datasource")
        ctType == findStoryblokFieldValue(field, "ctType")
        stringType == findStoryblokFieldValue(field, "format")
    IN  IF IsNonEmpty(datasource)
        THEN Return([type |-> "option",
                     datasource_slug |-> datasource[1],
                     source |-> "internal",
                     use_uuid |-> TRUE])
        ELSE IF ctType = Some("category")
        THEN IF config = None
             THEN Throw("Commercetools config is required for " \o field.name)
             ELSE Return([type |-> "custom",
                          field_type |-> "ct-category",
                          options |-> ctCategoryOptions(config[1])])
        ELSE IF stringType = Some("richtext") THEN richtextField(field)
        ELSE IF stringType = Some("markdown") THEN markdownField(field)
        ELSE IF stringType = Some("textarea") THEN textareaField(field)
        ELSE textField(field)

numberField(field) ==
    Return([type |-> "number",
            decimals_value |-> ifValue(findStoryblokFieldValue(field, "decimals")),
            steps_value |-> ifValue(findStoryblokFieldValue(field, "steps")),
            min_value |-> ifValue(findStoryblokFieldValue(field, "min")),
            max_value |-> ifValue(findStoryblokFieldValue(field, "max"))])

ctTypeIdField(field, type, config) ==
    IF config = None
    THEN Throw("Commercetools config is required for type " \o typeName(type))
    ELSE LET ctType == findStoryblokFieldValue(field, "ctType") IN
         Return([type |-> "custom",
                 field_type |-> "sb-commercetools",
                 options |->
                     ctConnectionOptions(config[1])
                     \o <<Option("limit", "1")>>
                     \o (IF IsNonEmpty(ctType)
                         THEN <<Option("selectOnly", ctType[1])>> ELSE <<>>)])

scalarField(field, type, config) ==
    LET name == typeName(type) IN
    IF name = "String" THEN stringField(field, config)
    ELSE IF name = "Boolean" THEN Return([type |-> "boolean"])
    ELSE IF name \in {"Int", "Float"} THEN numberField(field)
    ELSE IF name = "Date" THEN Return([type |-> "datetime", disable_time |-> Some(TRUE)])
    ELSE IF name = "DateTime" THEN Return([type |-> "datetime", disable_time |-> None])
    ELSE IF name = "CtTypeId" THEN ctTypeIdField(field, type, config)
    ELSE Throw("Unsupported type " \o name)

toComponentField(field, type, config) ==
    LET name == typeName(type)
        node == getType(name)
    IN  IF ~hasType(name) THEN scalarField(field, type, config)
        ELSE IF isEnumType(node)
        THEN Return([type |-> "option", options |-> enumOptions(node)])
        ELSE IF name = "StoryblokAsset"
        THEN Return([type |-> "asset", filetypes |-> filetypes(field)])
        ELSE IF name = "StoryblokLink" THEN multilinkField(field)
        ELSE IF name = "StoryblokSeo"
        THEN Return([type |-> "custom", field_type |-> "seo-metatags"])
        ELSE IF name = "StoryblokTable" THEN Return([type |-> "table"])
        ELSE IF isObjectType(node) \/ isUnionType(node) THEN referenceField(field, node)
        ELSE scalarField(field, type, config)

(***************************************************************************)
(* Grouping resolver.                                                      *)
(***************************************************************************)
\* Mutant: the uniqueness filter is left out.
getUniqueDirectiveProps_NoUnique(node, directiveProp) ==
    SeqMap(LAMBDA x : x[1],
           SelectSeq(SeqMap(LAMBDA field :
                                findStoryblokFieldValue(field, directiveProp),
                            node.fields),
                     isValue))

getUniqueDirectiveProps(node, directiveProp) ==
    SeqMap(LAMBDA x : x[1],
           SelectSeq(uniqueBy(SeqMap(LAMBDA field :
                                         findStoryblokFieldValue(field, directiveProp),
                                     node.fields)),
                     isValue))

sectionKey(name) == camelCase("section " \o name)

tabKey(name) == camelCase("tab " \o name)

\* Mutant: a tab leaves out the names of its fields that are in a section.
toFieldGroupComponentField_OmitSectioned(node, directiveProp, name) ==
    [type |-> directiveProp,
     display_name |-> name,
     keys |->
         SeqMap(LAMBDA field : field.name,
                SelectSeq(node.fields,
                          LAMBDA field :
                              /\ findStoryblokFieldValue(field, directiveProp) = Some(name)
                              /\ directiveProp = "tab"
                                     => findStoryblokFieldValue(field, "section") = None))
         \o (IF directiveProp = "tab"
             THEN uniqueBy(
                      SeqMap(LAMBDA field :
                                 sectionKey(findStoryblokFieldValue(field, "section")[1]),
                             SelectSeq(node.fields,
                                       LAMBDA field :
                                           /\ findStoryblokFieldValue(field, "tab") = Some(name)
                                           /\ findStoryblokFieldValue(field, "section") # None)))
             ELSE <<>>)]

\* Mutant: the section keys of a tab are not deduplicated.
toFieldGroupComponentField_NoUnique(node, directiveProp, name) ==
    [type |-> directiveProp,
     display_name |-> name,
     keys |->
         SeqMap(LAMBDA field : field.name,
                SelectSeq(node.fields,
                          LAMBDA field :
                              findStoryblokFieldValue(field, directiveProp) = Some(name)))
         \o (IF directiveProp = "tab"
             THEN SeqMap(LAMBDA field :
                             sectionKey(findStoryblokFieldValue(field, "section")[1]),
                         SelectSeq(node.fields,
                                   LAMBDA field :
                                       /\ findStoryblokFieldValue(field, "tab") = Some(name)
                                       /\ findStoryblokFieldValue(field, "section") # None))
             ELSE <<>>)]

toFieldGroupComponentField(node, directiveProp, name) ==
    [type |-> directiveProp,
     display_name |-> name,
     keys |->
         SeqMap(LAMBDA field : field.name,
                SelectSeq(node.fields,
                          LAMBDA field :
                              findStoryblokFieldValue(field, directiveProp) = Some(name)))
         \o (IF directiveProp = "tab"
             THEN uniqueBy(
                      SeqMap(LAMBDA field :
                                 sectionKey(findStoryblokFieldValue(field, "section")[1]),
                             SelectSeq(node.fields,
                                       LAMBDA field :
                                           /\ findStoryblokFieldValue(field, "tab") = Some(name)
                                           /\ findStoryblokFieldValue(field, "section") # None)))
             ELSE <<>>)]

(***************************************************************************)
(* toSchema.                                                               *)
(***************************************************************************)
\* switchArray(field.type, {ifArray, other})
classify(field, config) ==
    IF IsArray(field.type)
    THEN toArrayComponentField(field, Unwrapped(field.type).type, config)
    ELSE toComponentField(field, field.type, config)

normalFields(node) ==
    SelectSeq(node.fields, LAMBDA field : hasDirective(field, "storyblokField"))

Entry(key, value) == [key |-> key, value |-> value]

normalEntry(field, position, config) ==
    LET displayName == findStoryblokFieldValue(field, "displayName") IN
    Entry(field.name,
          classify(field, config).value @@
          [position |-> position,
           translatable |-> findStoryblokFieldValue(field, "translatable"),
           default_value |-> findStoryblokFieldValue(field, "default"),
           no_translate |-> findStoryblokFieldValue(field, "excludeFromExport"),
           display_name |-> IF displayName # None THEN displayName[1]
                            ELSE sentenceCase(field.name),
           required |-> field.type.kind = "NonNullType",
           description |-> field.description])

\* Mutant: the sections are numbered from zero, without the fields before them.
sectionPosition_NoOffset(node, position) == position

sectionPosition(node, position) == position + Len(node.fields)

tabPosition(node, position) ==
    position + Len(getUniqueDirectiveProps(node, "section")) + Len(node.fields)

\* Mutant: a section entry is keyed by the bare section value.
sectionEntries_RawKey(node) ==
    LET names == getUniqueDirectiveProps(node, "section") IN
    [i \in 1..Len(names) |->
        Entry(names[i],
              toFieldGroupComponentField(node, "section", names[i]) @@
              [position |-> sectionPosition(node, i - 1)])]

sectionEntries(node) ==
    LET names == getUniqueDirectiveProps(node, "section") IN
    [i \in 1..Len(names) |->
        Entry(sectionKey(names[i]),
              toFieldGroupComponentField(node, "section", names[i]) @@
              [position |-> sectionPosition(node, i - 1)])]

tabEntries(node) ==
    LET names == getUniqueDirectiveProps(node, "tab") IN
    [i \in 1..Len(names) |->
        Entry(tabKey(names[i]),
              toFieldGroupComponentField(node, "tab", names[i]) @@
              [position |-> tabPosition(node, i - 1)])]

schemaEntries(node, config) ==
    LET fields == normalFields(node) IN
    [i \in 1..Len(fields) |-> normalEntry(fields[i], i - 1, config)]
    \o sectionEntries(node) \o tabEntries(node)

\* Object.fromEntries: the last entry of a key wins.
fromEntries(list) ==
    [key \in {list[i].key : i \in 1..Len(list)} |->
        LET last == CHOOSE i \in 1..Len(list) :
                        /\ list[i].key = key
                        /\ \A j \in (i + 1)..Len(list) : list[j].key # key
        IN  list[last].value]

\* The error of the first field whose classification throws, if any.
firstError(node, config) ==
    LET fields == normalFields(node)
        failed == SelectSeq(fields, LAMBDA field : classify(field, config).threw)
    IN  IF failed = <<>> THEN None ELSE Some(classify(failed[1], config).message)

toSchema(node, config) ==
    LET error == firstError(node, config) IN
    IF error # None THEN Throw(error[1])
    ELSE Return(fromEntries(schemaEntries(node, config)))

(***************************************************************************)
(* Inputs.                                                                 *)
(***************************************************************************)
Field(name, type, directives) ==
    [name |-> name, type |-> type, description |-> None, directives |-> directives]

Config ==
    [projectKey |-> "shop", endpoint |-> "var.ct_endpoint", clientId |-> "client",
     clientSecret |-> "local.ct_secret", locale |-> "en"]

\* Field names of a type definition are distinct; the i-th declared field takes
\* the i-th name.  "sectionBasics" and "tabInfo" are also the keys synthesized
\* for the section Basics and the tab Info.
FieldNames == <<"title", "intro", "sectionBasics", "tabInfo", "summary", "footer">>

\* "Basics" and "basics" are distinct section values with the same key.
SectionValues == {None, Some("Basics"), Some("basics"), Some("Meta")}

TabValues == {None, Some("Info"), Some("Seo")}

GroupArgs ==
    {[NoArgs EXCEPT !["section"] = s, !["tab"] = t] :
        s \in SectionValues, t \in TabValues}

\* What one declared field of the type definition looks like, its name apart.
FieldShapes ==
    {[type |-> Named("String"), directives |-> <<>>],
     [type |-> NonNull(Named("ID")), directives |-> <<StoryblokField(NoArgs)>>]} \cup
    {[type |-> Named("String"), directives |-> <<StoryblokField(a)>>] : a \in GroupArgs}

\* The named types a classified field refers to, and the wrappers around them.
TypeShapes(name) ==
    {Named(name), NonNull(Named(name)), ListOf(Named(name)),
     NonNull(ListOf(NonNull(Named(name))))}

BlokTypesValues ==
    {None,
     Some(<<EnumValue("Teaser")>>),
     Some(<<StringValue("Teaser")>>),
     Some(<<StringValue("HeroBanner"), StringValue("hero_banner")>>)}

ToolbarValues ==
    {None,
     Some(<<>>),
     Some(<<EnumValue("bold"), EnumValue("textColor")>>),
     Some(<<EnumValue("blok"), EnumValue("bold")>>)}

ClassifierArgs ==
    {[NoArgs EXCEPT !["datasource"] = d, !["ctType"] = c, !["format"] = f,
                    !["blokTypes"] = b, !["toolbar"] = t, !["max"] = m] :
        d \in {None, Some("colors")},
        c \in {None, Some("category"), Some("product")},
        f \in {None, Some("richtext"), Some("markdown"), Some("textarea"), Some("html")},
        b \in BlokTypesValues,
        t \in ToolbarValues,
        m \in {None, Some(2)}}

VARIABLES node, ctConfig, field, pc, entries, out, result

vars == <<node, ctConfig, field, pc, entries, out, result>>

(***************************************************************************)
(* toSchema applied to one type definition.                                *)
(***************************************************************************)
Init ==
    /\ \E n \in 0..MaxFields :
           \E shapes \in [1..n -> FieldShapes] :
               node = [name |-> "Article",
                       fields |-> [i \in 1..n |->
                                      Field(FieldNames[i], shapes[i].type,
                                            shapes[i].directives)]]
    /\ ctConfig = None
    /\ field = None
    /\ pc = "start"
    /\ entries = <<>>
    /\ out = None
    /\ result = None

\* toSchema returns the mapping built from the entries.
ToSchemaReturn ==
    LET list == schemaEntries(node, ctConfig) IN
    /\ pc = "start"
    /\ firstError(node, ctConfig) = None
    /\ entries' = list
    /\ out' = Return(fromEntries(list))
    /\ pc' = "done"
    /\ UNCHANGED <<node, ctConfig, field, result>>

\* toSchema throws the classification error of one of the fields.
ToSchemaThrow ==
    /\ pc = "start"
    /\ firstError(node, ctConfig) # None
    /\ out' = toSchema(node, ctConfig)
    /\ pc' = "threw"
    /\ UNCHANGED <<node, ctConfig, field, entries, result>>

Next == ToSchemaReturn \/ ToSchemaThrow

Spec == Init /\ [][Next]_vars

(***************************************************************************)
(* The classifiers applied to one field definition.                        *)
(***************************************************************************)
InitField ==
    /\ node = [name |-> "Article", fields |-> <<>>]
    /\ ctConfig \in {None, Some(Config)}
    /\ \E name \in TypeNames, args \in ClassifierArgs :
           \E type \in TypeShapes(name) :
               field = Field("featured", type, <<StoryblokField(args)>>)
    /\ pc = "start"
    /\ entries = <<>>
    /\ out = None
    /\ result = None

\* switchArray, ifArray: a list field goes to toArrayComponentField.
ClassifyArray ==
    /\ pc = "start"
    /\ IsArray(field.type)
    /\ result' = toArrayComponentField(field, Unwrapped(field.type).type, ctConfig)
    /\ pc' = "done"
    /\ UNCHANGED <<node, ctConfig, field, entries, out>>

\* switchArray, other: any other field goes to toComponentField.
ClassifySingular ==
    /\ pc = "start"
    /\ ~IsArray(field.type)
    /\ result' = toComponentField(field, field.type, ctConfig)
    /\ pc' = "done"
    /\ UNCHANGED <<node, ctConfig, field, entries, out>>

NextField == ClassifyArray \/ ClassifySingular

SpecField == InitField /\ [][NextField]_vars

(***************************************************************************)
(* Properties of toSchema (specification Spec).                            *)
(***************************************************************************)
Done == pc = "done"

FieldIdx == 1..Len(node.fields)

NameOf(i) == node.fields[i].name

SectionOf(i) == findStoryblokFieldValue(node.fields[i], "section")

TabOf(i) == findStoryblokFieldValue(node.fields[i], "tab")

\* The entries toSchema built for the groups of one kind, by their index.
Groups(kind) == {j \in 1..Len(entries) : entries[j].value.type = kind}

NameOfGroup(j) == entries[j].value.display_name

KeysOf(j) == entries[j].value.keys

\* The key a section value is expected under, written out.
ExpectedSectionKey(value) ==
    CASE value = "Basics" -> "sectionBasics"
      [] value = "basics" -> "sectionBasics"
      [] value = "Meta" -> "sectionMeta"

\* The position of a declared field, by its name.
FieldIndex(name) == CHOOSE i \in FieldIdx : NameOf(i) = name

RECURSIVE FirstOccurrences(_)
FirstOccurrences(s) ==
    IF s = <<>> THEN <<>>
    ELSE LET before == FirstOccurrences(SubSeq(s, 1, Len(s) - 1)) IN
         IF Includes(before, s[Len(s)]) THEN before ELSE Append(before, s[Len(s)])

\* C1: the positions of the entries toSchema produces are 0, 1, ..., N-1 in the
\* order ordinary fields, sections, tabs, whatever the number of declared fields
\* without the storyblokField directive.
C1_PositionsGapFree ==
    Done => \A i \in 1..Len(entries) : entries[i].value.position = i - 1

\* C3 as stated: the tab group of T does not list, by name, a field that carries
\* tab T and a section; it lists the unsectioned fields of T and the section keys.
C3_TabOmitsSectionMembers ==
    Done =>
        \A j \in Groups("tab") : \A i \in FieldIdx :
            (TabOf(i) = Some(NameOfGroup(j)) /\ SectionOf(i) # None)
                => ~Includes(KeysOf(j), NameOf(i))

\* C3 as amended: the tab group of T lists every field that carries tab T by its
\* name, with or without a section, and lists the synthesized key of the section
\* of each of them that has one.
C3_TabListsMembersAndSectionKeys ==
    Done =>
        \A j \in Groups("tab") : \A i \in FieldIdx :
            TabOf(i) = Some(NameOfGroup(j)) =>
                /\ Includes(KeysOf(j), NameOf(i))
                /\ SectionOf(i) # None
                       => Includes(KeysOf(j), ExpectedSectionKey(SectionOf(i)[1]))

\* Scenario F: a{tab Info}, b{tab Info, section Basics} gives keys a, b, sectionBasics.
C3_Witness ==
    /\ Done
    /\ \E j \in Groups("tab") : \E a, b \in FieldIdx :
           /\ TabOf(a) = Some("Info") /\ SectionOf(a) = None
           /\ TabOf(b) = Some("Info") /\ SectionOf(b) = Some("Basics")
           /\ NameOf(b) # "sectionBasics"
           /\ NameOfGroup(j) = "Info"
           /\ Includes(KeysOf(j), NameOf(a))
           /\ Includes(KeysOf(j), NameOf(b))
           /\ Includes(KeysOf(j), "sectionBasics")

ExpectedTabKeys(tab) ==
    LET members == SelectSeq(Indices(node.fields), LAMBDA i : TabOf(i) = Some(tab))
        sectioned == SelectSeq(members, LAMBDA i : SectionOf(i) # None)
    IN  [a \in 1..Len(members) |-> NameOf(members[a])]
        \o FirstOccurrences([a \in 1..Len(sectioned) |->
                                ExpectedSectionKey(SectionOf(sectioned[a])[1])])

\* C8: each distinct tab value yields exactly one tab group, whose keys are the
\* names of the fields carrying the tab, in declaration order, followed by the
\* keys of the sections that occur with the tab, without duplicates, in the order
\* of their first occurrence.
C8_TabGroups ==
    Done =>
        /\ \A j \in Groups("tab") :
               /\ \E i \in FieldIdx : TabOf(i) = Some(NameOfGroup(j))
               /\ KeysOf(j) = ExpectedTabKeys(NameOfGroup(j))
        /\ \A i \in FieldIdx :
               TabOf(i) # None =>
                   Cardinality({j \in Groups("tab") : NameOfGroup(j) = TabOf(i)[1]}) = 1

\* A tab whose three fields carry two sections, one of them twice.
C8_Witness ==
    /\ Done
    /\ \E j \in Groups("tab") :
           /\ Cardinality({i \in FieldIdx : TabOf(i) = Some(NameOfGroup(j))}) = 3
           /\ Len(KeysOf(j)) = 5
           /\ SubSeq(KeysOf(j), 4, 5) \in {<<"sectionBasics", "sectionMeta">>,
                                          <<"sectionMeta", "sectionBasics">>}
    /\ Len(node.fields) = 3

\* C10: every name in the keys of a section or tab entry of the returned mapping
\* is a key of that mapping; toSchema produced an ordinary-field entry for each
\* member name and a section entry for each section key a tab lists.
C10_GroupKeysResolve ==
    Done =>
        /\ \A k \in DOMAIN out.value :
               out.value[k].type \in {"section", "tab"} =>
                   \A a \in 1..Len(out.value[k].keys) :
                       out.value[k].keys[a] \in DOMAIN out.value
        /\ \A j \in Groups("section") \cup Groups("tab") :
               \A a \in 1..Len(KeysOf(j)) :
                   \E e \in 1..Len(entries) :
                       /\ entries[e].key = KeysOf(j)[a]
                       /\ e \notin Groups("tab")
                       /\ e \in Groups("section") => j \in Groups("tab")

\* A returned mapping with a section that has a member and a tab that lists it.
C10_Witness ==
    /\ Done
    /\ \E k, l \in DOMAIN out.value :
           /\ out.value[k].type = "tab"
           /\ out.value[l].type = "section"
           /\ Includes(out.value[k].keys, l)
           /\ Len(out.value[l].keys) >= 1

\* The category of an entry of the mapping: 0 ordinary field, 1 section, 2 tab.
Rank(value) ==
    IF value.type = "section" THEN 1 ELSE IF value.type = "tab" THEN 2 ELSE 0

\* C11: no two entries of the mapping toSchema returns carry the same position,
\* and every ordinary field's position is below every section's, which is below
\* every tab's, for any mix of fields with and without the storyblokField
\* directive; the same holds of the entries the mapping is built from.
C11_PositionsUniqueAndOrdered ==
    Done =>
        /\ \A k, l \in DOMAIN out.value :
               /\ k # l => out.value[k].position # out.value[l].position
               /\ Rank(out.value[k]) < Rank(out.value[l])
                      => out.value[k].position < out.value[l].position
        /\ \A i, j \in 1..Len(entries) :
               /\ i # j => entries[i].value.position # entries[j].value.position
               /\ Rank(entries[i].value) < Rank(entries[j].value)
                      => entries[i].value.position < entries[j].value.position

\* A mapping with an ordinary field, a section and a tab, built from a type
\* definition that also declares a field without the directive.
C11_Witness ==
    /\ Done
    /\ \E i \in FieldIdx : ~hasDirective(node.fields[i], "storyblokField")
    /\ \E k, l, m \in DOMAIN out.value :
           /\ Rank(out.value[k]) = 0
           /\ Rank(out.value[l]) = 1
           /\ Rank(out.value[m]) = 2

(***************************************************************************)
(* Properties of the classifiers (specification SpecField).                *)
(***************************************************************************)
Arg(prop) == findStoryblokFieldValue(field, prop)

ElementType == typeName(field.type)

Returned == pc = "done" /\ ~result.threw

Threw == pc = "done" /\ result.threw

\* The object and union types of the graph, and those whose every member type
\* carries the type directive value contentType or universal.
ObjectTypeNames == {"Page", "BlogPost", "Landing", "Teaser"}

UnionTypeNames == {"PageOrBlogPost", "PageOrLanding", "PageOrTeaser"}

EnumTypeNames == {"Color"}

ContentTypeLike == {"Page", "BlogPost", "Landing", "PageOrBlogPost", "PageOrLanding"}

\* The member type names of a content-type-like type, as the output writes them.
ExpectedContentTypes ==
    CASE ElementType = "Page" -> <<"page">>
      [] ElementType = "BlogPost" -> <<"blog_post">>
      [] ElementType = "Landing" -> <<"landing">>
      [] ElementType = "PageOrBlogPost" -> <<"page", "blog_post">>
      [] ElementType = "PageOrLanding" -> <<"page", "landing">>

\* C2: a field, singular or list, whose type is an object type or a union type
\* with every member typed contentType or universal is classified as a content
\* reference (option for a singular field, options for a list) and never as bloks.
C2_ContentReference ==
    (pc = "done" /\ ElementType \in ContentTypeLike) =>
        /\ ~result.threw
        /\ result.value.type = IF IsArray(field.type) THEN "options" ELSE "option"
        /\ result.value.source = "internal_stories"
        /\ result.value.filter_content_type = ExpectedContentTypes
        /\ result.value.use_uuid = TRUE

\* A blokTypes directive that names at least one component.
NamesComponent ==
    /\ Arg("blokTypes") # None
    /\ \E i \in 1..Len(Arg("blokTypes")[1]) : Arg("blokTypes")[1][i].kind = "StringValue"

\* A singular String field that the format richtext decides.
IsRichtext ==
    /\ ~IsArray(field.type)
    /\ ElementType = "String"
    /\ Arg("datasource") = None
    /\ Arg("ctType") # Some("category")
    /\ Arg("format") = Some("richtext")

\* C4: a richtext field with a blokTypes directive naming a component has a
\* toolbar list that ends with "blok" and restrict_components set, with or
\* without a toolbar directive.
C4_RichtextToolbarEndsWithBlok ==
    (pc = "done" /\ IsRichtext /\ NamesComponent) =>
        /\ ~result.threw
        /\ result.value.type = "richtext"
        /\ result.value.restrict_components = Some(TRUE)
        /\ result.value.toolbar # None
        /\ Len(result.value.toolbar[1]) >= 1
        /\ result.value.toolbar[1][Len(result.value.toolbar[1])] = "blok"

\* The element types claim C5 lists for a list field.
ListedArrayTypes ==
    EnumTypeNames \cup ObjectTypeNames \cup UnionTypeNames \cup {"StoryblokAsset", "CtTypeId"}

\* C5 as stated: a list field is classified only when its element type is an enum,
\* an object, a union, StoryblokAsset or CtTypeId; any other element type throws
\* "Unsupported array type" with the type name.
C5_OnlyListedArrayTypes ==
    (pc = "done" /\ IsArray(field.type)) =>
        /\ ~result.threw => ElementType \in ListedArrayTypes
        /\ ElementType \notin ListedArrayTypes =>
               /\ result.threw
               /\ result.message = "Unsupported array type " \o ElementType

\* C5 as amended: a list of String with a datasource argument is classified too,
\* as options sourced from the internal datasource; a list of String without one
\* throws "Datasource is required for type String"; every element type other than
\* String and the listed ones throws "Unsupported array type" with the type name.
C5_ArrayTypes ==
    (pc = "done" /\ IsArray(field.type)) =>
        IF ElementType \in ListedArrayTypes \ {"CtTypeId"}
        THEN /\ ~result.threw
             /\ ElementType = "StoryblokAsset" => result.value.type = "multiasset"
        ELSE IF ElementType = "CtTypeId"
        THEN /\ ~result.threw <=> ctConfig # None
             /\ ~result.threw => result.value.type = "custom"
        ELSE IF ElementType = "String"
        THEN IF Arg("datasource") # None
             THEN /\ ~result.threw
                  /\ result.value.type = "options"
                  /\ result.value.source = "internal"
                  /\ result.value.datasource_slug = Arg("datasource")[1]
             ELSE /\ result.threw
                  /\ result.message = "Datasource is required for type String"
        ELSE /\ result.threw
             /\ result.message = "Unsupported array type " \o ElementType

\* A list of String with a datasource is classified.
C5_Witness ==
    /\ Returned
    /\ IsArray(field.type)
    /\ ElementType = "String"
    /\ result.value.type = "options"

\* Whether the text holds the word at some place.
Contains(text, word) ==
    \E i \in 1..(Len(text) - Len(word) + 1) : SubSeq(text, i, i + Len(word) - 1) = word

\* A field that needs the integration configuration.
NeedsConfig ==
    \/ ElementType = "CtTypeId"
    \/ /\ ~IsArray(field.type)
       /\ ElementType = "String"
       /\ Arg("datasource") = None
       /\ Arg("ctType") = Some("category")

\* C6: a field that needs the integration configuration, classified without one,
\* throws an error whose message names the field.
C6_MissingConfigNamesField ==
    (pc = "done" /\ ctConfig = None /\ NeedsConfig) =>
        /\ result.threw
        /\ Contains(result.message, "Commercetools config is required")
        /\ Contains(result.message, field.name)

\* The field kind the format argument selects; text when absent or unrecognized.
ExpectedFormatKind ==
    CASE Arg("format") = Some("richtext") -> "richtext"
      [] Arg("format") = Some("markdown") -> "markdown"
      [] Arg("format") = Some("textarea") -> "textarea"
      [] OTHER -> "text"

\* C9: for a singular String field a datasource argument gives the option spec of
\* the internal datasource whatever format and ctType say; otherwise ctType
\* category gives the ct-category custom field (the missing-configuration error
\* when no configuration is supplied) whatever format says; otherwise format
\* selects text, textarea, markdown or richtext, text being the default.
C9_StringPrecedence ==
    (pc = "done" /\ ~IsArray(field.type) /\ ElementType = "String") =>
        IF Arg("datasource") # None
        THEN /\ ~result.threw
             /\ result.value.type = "option"
             /\ result.value.source = "internal"
             /\ result.value.datasource_slug = Arg("datasource")[1]
        ELSE IF Arg("ctType") = Some("category")
        THEN /\ result.threw <=> ctConfig = None
             /\ ~result.threw =>
                    /\ result.value.type = "custom"
                    /\ result.value.field_type = "ct-category"
        ELSE /\ ~result.threw
             /\ result.value.type = ExpectedFormatKind

\* A datasource wins over ctType category and format richtext, and ctType
\* category would win over the format.
C9_Witness ==
    /\ Returned
    /\ ~IsArray(field.type)
    /\ ElementType = "String"
    /\ Arg("datasource") # None
    /\ Arg("ctType") = Some("category")
    /\ Arg("format") = Some("richtext")
    /\ result.value.type = "option"

=============================================================================
